---- MODULE Spec2Model ----
(***************************************************************************)
(* Persistent string map of string_map.go: a fixed-arity radix tree keyed  *)
(* by the chunks of a key's hash, updated by path copying.                 *)
(*                                                                         *)
(* The Go heap is modelled explicitly: heap is the sequence of all         *)
(* StringMap nodes ever allocated, a *StringMap is an index into it, and   *)
(* index nilMap is the shared empty map.  Every write of the code to a     *)
(* node field is a Store on that heap and is logged, so that sharing and   *)
(* in-place mutation are visible to the properties.                        *)
(***************************************************************************)
EXTENDS Integers, Sequences, FiniteSets, TLC

\* ------------------------------------------------------------ bounds ----
\* Number of Set/Delete calls in one behaviour.
MaxOps == 4

\* Number of keys the round-trip caller inserts.
MaxTrip == 3

\* Calls of the caller that uses keys of distinct digests only.
MaxDeep == 5

\* Versions the racing writers derive between them.
MaxRace == 3

\* ------------------------------------------------- program constants ----
\* shiftSize and childCount are declared outside string_map.go, with
\* childCount = 2^shiftSize; the narrowest tree is taken, which makes the
\* deepest trees out of few keys.
shiftSize == 1

childCount == 2 ^ shiftSize

Slots == 0 .. (childCount - 1)

\* The keys and values callers pass.  "e" has the same hash as "a".
KeySet == {"a", "b", "c", "d", "e"}

ValueSet == {"1", "2"}

\* hashKey is the external hash provider: a deterministic function of the
\* key.  The digests 0, 2, 1, 4 put "b", "d", "a" on one path below "c"
\* (chunks 0; 0,0; 0,0,0) and "c" in slot 1 of the others.
hashKey(key) ==
    CASE key = "a" -> 0
      [] key = "b" -> 2
      [] key = "c" -> 1
      [] key = "d" -> 4
      [] key = "e" -> 0
      [] key = "f" -> 6

\* Keys of pairwise distinct digests, four of them with the same lowest chunk.
DeepKeys == {"a", "b", "c", "d", "f"}

\* ------------------------------------------------------- the heap -------
\* The address of the shared empty map.
nilMap == 1

\* &StringMap{} followed by init(): every child of the empty map is itself.
nilStringMap ==
    [count |-> 0, hash |-> 0, key |-> "", value |-> "",
     children |-> [i \in Slots |-> nilMap]]

\* Memory: the nodes allocated so far and, for the running operation, the
\* addresses written to so far and the nodes deleteLeftmost was called on.
NewMem(h) == [heap |-> h, writes |-> {}, leftmost |-> << >>]

\* One assignment  m.field = val  of the code.
Store(mem, m, field, val) ==
    [mem EXCEPT !.heap = [@ EXCEPT ![m] = [@ EXCEPT ![field] = val]],
                !.writes = @ \cup {m}]

\* One assignment  m.children[i] = t  of the code.
StoreChild(mem, m, i, t) ==
    [mem EXCEPT !.heap = [@ EXCEPT ![m] = [@ EXCEPT !.children = [@ EXCEPT ![i] = t]]],
                !.writes = @ \cup {m}]

IsNil(self) == self = nilMap

NewStringMap == nilMap

\* A clone that also copies the child in slot 0 instead of sharing it.
cloneDeep(mem, self) ==
    LET t == mem.heap[self].children[0]
        n == Len(mem.heap)
    IN  IF IsNil(self) \/ IsNil(t)
        THEN [mem |-> [mem EXCEPT !.heap = Append(@, mem.heap[self])], ref |-> n + 1]
        ELSE [mem |-> [mem EXCEPT !.heap =
                          Append(Append(@, mem.heap[t]),
                                 [mem.heap[self] EXCEPT !.children[0] = n + 1])],
              ref |-> n + 2]

\* A clone that hands back the node itself instead of a copy.
cloneAlias(mem, self) == [mem |-> mem, ref |-> self]

\* clone allocates a copy of the node: same scalars, same child references.
clone(mem, self) ==
    [mem |-> [mem EXCEPT !.heap = Append(@, mem.heap[self])],
     ref |-> Len(mem.heap) + 1]

Size(heap, m) == heap[m].count

\* isLeaf that takes any node with at most one key below it for a leaf.
isLeafLoose(heap, m) == Size(heap, m) <= 2

isLeaf(heap, m) == Size(heap, m) = 1

RECURSIVE SumSizes(_, _, _)
\* The loop of recalculateCount over children j, j+1, ...
SumSizes(heap, m, j) ==
    IF j = childCount THEN 0
    ELSE Size(heap, heap[m].children[j]) + SumSizes(heap, m, j + 1)

\* recalculateCount that forgets to count the node itself.
recalculateCountNoSelf(mem, m) == Store(mem, m, "count", SumSizes(mem.heap, m, 0))

recalculateCount(mem, m) == Store(mem, m, "count", SumSizes(mem.heap, m, 0) + 1)

\* partialHash % childCount
ChildIndex(partialHash) == partialHash % childCount

\* A descent that forgets to shift the partial hash.
ShiftRightNone(partialHash) == partialHash

\* partialHash >> shiftSize
ShiftRight(partialHash) == partialHash \div (2 ^ shiftSize)

\* ------------------------------------------------------- Set ------------
RECURSIVE setLowLevel(_, _, _, _, _, _)
\* A setLowLevel without the collision check: a node of the same hash has
\* its value replaced whatever its key.
setLowLevelOverwrite(mem, self, partialHash, hash, key, value) ==
    IF IsNil(self) THEN
        LET c  == clone(mem, self)
            m  == c.ref
            m1 == Store(c.mem, m, "count", 1)
            m2 == Store(m1, m, "hash", hash)
            m3 == Store(m2, m, "key", key)
            m4 == Store(m3, m, "value", value)
        IN  [mem |-> m4, ref |-> m, panic |-> FALSE]
    ELSE IF hash # mem.heap[self].hash THEN
        LET c == clone(mem, self)
            m == c.ref
            i == ChildIndex(partialHash)
            r == setLowLevel(c.mem, c.mem.heap[self].children[i],
                             ShiftRight(partialHash), hash, key, value)
        IN  IF r.panic THEN r
            ELSE [mem |-> recalculateCount(StoreChild(r.mem, m, i, r.ref), m),
                  ref |-> m, panic |-> FALSE]
    ELSE
        LET c == clone(mem, self)
            m == c.ref
        IN  [mem |-> Store(c.mem, m, "value", value), ref |-> m, panic |-> FALSE]

\* Result: the memory after the call, the node returned, and whether the
\* call ended in the hash-collision panic (then ref is the node it hit).
setLowLevel(mem, self, partialHash, hash, key, value) ==
    IF IsNil(self) THEN
        LET c  == clone(mem, self)
            m  == c.ref
            m1 == Store(c.mem, m, "count", 1)
            m2 == Store(m1, m, "hash", hash)
            m3 == Store(m2, m, "key", key)
            m4 == Store(m3, m, "value", value)
        IN  [mem |-> m4, ref |-> m, panic |-> FALSE]
    ELSE IF hash # mem.heap[self].hash THEN
        LET c == clone(mem, self)
            m == c.ref
            i == ChildIndex(partialHash)
            r == setLowLevel(c.mem, c.mem.heap[self].children[i],
                             ShiftRight(partialHash), hash, key, value)
        IN  IF r.panic THEN r
            ELSE [mem |-> recalculateCount(StoreChild(r.mem, m, i, r.ref), m),
                  ref |-> m, panic |-> FALSE]
    ELSE IF key # mem.heap[self].key THEN
        [mem |-> mem, ref |-> self, panic |-> TRUE]
    ELSE
        LET c == clone(mem, self)
            m == c.ref
        IN  [mem |-> Store(c.mem, m, "value", value), ref |-> m, panic |-> FALSE]

Set(mem, self, key, value) ==
    LET hash == hashKey(key)
    IN  setLowLevel(mem, self, hash, hash, key, value)

\* ------------------------------------------------------- Delete ---------
RECURSIVE FindDonorLast(_, _, _, _, _)
\* A donor search that keeps the last of the largest subtrees.
FindDonorLast(heap, self, j, i, size) ==
    IF j = childCount THEN i
    ELSE LET t == heap[self].children[j]
         IN  IF Size(heap, t) >= size
             THEN FindDonorLast(heap, self, j + 1, j, Size(heap, t))
             ELSE FindDonorLast(heap, self, j + 1, i, size)

RECURSIVE FindDonor(_, _, _, _, _)
\* The loop "find a node to replace us", at slot j with the best slot i and
\* its size so far: the first slot holding the largest subtree.
FindDonor(heap, self, j, i, size) ==
    IF j = childCount THEN i
    ELSE LET t == heap[self].children[j]
         IN  IF Size(heap, t) > size
             THEN FindDonor(heap, self, j + 1, j, Size(heap, t))
             ELSE FindDonor(heap, self, j + 1, i, size)

RECURSIVE FirstChildSkip(_, _, _)
\* A scan that passes over slot 0.
FirstChildSkip(heap, m, j) ==
    IF j = childCount THEN childCount
    ELSE IF j > 0 /\ heap[m].children[j] # nilMap THEN j
    ELSE FirstChildSkip(heap, m, j + 1)

RECURSIVE FirstChild(_, _, _)
\* The scan of deleteLeftmost: the first slot from j on that is not nilMap,
\* childCount when there is none.
FirstChild(heap, m, j) ==
    IF j = childCount THEN childCount
    ELSE IF heap[m].children[j] # nilMap THEN j
    ELSE FirstChild(heap, m, j + 1)

RECURSIVE deleteLeftmost(_, _)
\* Result: the memory after the call, the node deleted, the tree left over,
\* and whether the call ended in the "isn't a leaf but also had no children"
\* panic.
deleteLeftmost(mem0, m) ==
    LET mem == [mem0 EXCEPT !.leftmost = Append(@, m)]
    IN  IF isLeaf(mem.heap, m) THEN
            [mem |-> mem, deleted |-> m, child |-> nilMap, panic |-> FALSE]
        ELSE
            LET i == FirstChild(mem.heap, m, 0)
            IN  IF i = childCount THEN
                    [mem |-> mem, deleted |-> m, child |-> m, panic |-> TRUE]
                ELSE
                    LET r == deleteLeftmost(mem, mem.heap[m].children[i])
                        c == clone(r.mem, m)
                        newMap == c.ref
                    IN  IF r.panic THEN r
                        ELSE [mem |-> recalculateCount(
                                          StoreChild(c.mem, newMap, i, r.child),
                                          newMap),
                              deleted |-> r.deleted, child |-> newMap,
                              panic |-> FALSE]

RECURSIVE CopyChildren(_, _, _, _, _, _)
\* A loop that copies every slot from self, the donor slot too.
CopyChildrenNoDonor(mem, newMap, self, i, child, j) ==
    IF j = childCount THEN mem
    ELSE CopyChildren(StoreChild(mem, newMap, j, mem.heap[self].children[j]),
                      newMap, self, i, child, j + 1)

\* The loop that fills newMap.children from slot j on: the donor slot i gets
\* child, every other slot the child of self.
CopyChildren(mem, newMap, self, i, child, j) ==
    IF j = childCount THEN mem
    ELSE CopyChildren(
             StoreChild(mem, newMap, j,
                        IF j = i THEN child ELSE mem.heap[self].children[j]),
             newMap, self, i, child, j + 1)

RECURSIVE deleteLowLevelCopying(_, _, _, _)
\* A deleteLowLevel that returns its copy of the node also when nothing was
\* found below it.
deleteLowLevelCopying(mem, self, partialHash, hash) ==
    IF IsNil(self) THEN
        [mem |-> mem, ref |-> self, found |-> FALSE, panic |-> FALSE]
    ELSE IF hash # mem.heap[self].hash THEN
        LET i == ChildIndex(partialHash)
            r == deleteLowLevelCopying(mem, mem.heap[self].children[i],
                                ShiftRight(partialHash), hash)
            c == clone(r.mem, self)
            newMap == c.ref
        IN  IF r.panic THEN r
            ELSE IF ~r.found THEN
                [mem |-> c.mem, ref |-> newMap, found |-> FALSE, panic |-> FALSE]
            ELSE
                [mem |-> recalculateCount(
                             StoreChild(c.mem, newMap, i, r.ref), newMap),
                 ref |-> newMap, found |-> TRUE, panic |-> FALSE]
    ELSE IF isLeaf(mem.heap, self) THEN
        [mem |-> mem, ref |-> nilMap, found |-> TRUE, panic |-> FALSE]
    ELSE
        LET i == FindDonor(mem.heap, self, 0, -1, -1)
            d == deleteLeftmost(mem, mem.heap[self].children[i])
            c == clone(d.mem, d.deleted)
            newMap == c.ref
        IN  IF d.panic THEN
                [mem |-> d.mem, ref |-> self, found |-> TRUE, panic |-> TRUE]
            ELSE
                [mem |-> recalculateCount(
                             CopyChildren(c.mem, newMap, self, i, d.child, 0),
                             newMap),
                 ref |-> newMap, found |-> TRUE, panic |-> FALSE]

RECURSIVE deleteLowLevel(_, _, _, _)
\* Result: the memory after the call, the node returned, the found flag, and
\* whether deleteLeftmost panicked.
deleteLowLevel(mem, self, partialHash, hash) ==
    IF IsNil(self) THEN
        [mem |-> mem, ref |-> self, found |-> FALSE, panic |-> FALSE]
    ELSE IF hash # mem.heap[self].hash THEN
        LET i == ChildIndex(partialHash)
            r == deleteLowLevel(mem, mem.heap[self].children[i],
                                ShiftRight(partialHash), hash)
            c == clone(r.mem, self)
            newMap == c.ref
        IN  IF r.panic THEN r
            ELSE IF ~r.found THEN
                [mem |-> r.mem, ref |-> self, found |-> FALSE, panic |-> FALSE]
            ELSE
                [mem |-> recalculateCount(
                             StoreChild(c.mem, newMap, i, r.ref), newMap),
                 ref |-> newMap, found |-> TRUE, panic |-> FALSE]
    ELSE IF isLeaf(mem.heap, self) THEN
        [mem |-> mem, ref |-> nilMap, found |-> TRUE, panic |-> FALSE]
    ELSE
        LET i == FindDonor(mem.heap, self, 0, -1, -1)
            d == deleteLeftmost(mem, mem.heap[self].children[i])
            c == clone(d.mem, d.deleted)
            newMap == c.ref
        IN  IF d.panic THEN
                [mem |-> d.mem, ref |-> self, found |-> TRUE, panic |-> TRUE]
            ELSE
                [mem |-> recalculateCount(
                             CopyChildren(c.mem, newMap, self, i, d.child, 0),
                             newMap),
                 ref |-> newMap, found |-> TRUE, panic |-> FALSE]

Delete(mem, m, key) ==
    LET hash == hashKey(key)
    IN  deleteLowLevel(mem, m, hash, hash)

\* ------------------------------------------------------- queries --------
RECURSIVE lookupLowLevel(_, _, _, _)
\* The value and the found flag; an empty tree gives the empty value.
lookupLowLevel(heap, self, partialHash, hash) ==
    IF IsNil(self) THEN [value |-> "", found |-> FALSE]
    ELSE IF hash # heap[self].hash THEN
        lookupLowLevel(heap, heap[self].children[ChildIndex(partialHash)],
                       ShiftRight(partialHash), hash)
    ELSE [value |-> heap[self].value, found |-> TRUE]

Lookup(heap, m, key) ==
    LET hash == hashKey(key)
    IN  lookupLowLevel(heap, m, hash, hash)

RECURSIVE ForEach(_, _)
RECURSIVE ForEachChildren(_, _, _)
\* A loop over the children that returns after the first child it visits.
ForEachChildrenStop(heap, m, j) ==
    IF j = childCount THEN << >>
    ELSE IF heap[m].children[j] # nilMap
         THEN ForEach(heap, heap[m].children[j])
         ELSE ForEachChildren(heap, m, j + 1)

\* The sequence of calls f(key, val) that ForEach makes, in order.
ForEach(heap, m) ==
    IF IsNil(m) THEN << >>
    ELSE << [key |-> heap[m].key, val |-> heap[m].value] >>
         \o ForEachChildren(heap, m, 0)

\* The loop of ForEach over the children from slot j on.
ForEachChildren(heap, m, j) ==
    IF j = childCount THEN << >>
    ELSE (IF heap[m].children[j] # nilMap
          THEN ForEach(heap, heap[m].children[j]) ELSE << >>)
         \o ForEachChildren(heap, m, j + 1)

\* Keys: an array of m.Size() empty strings, filled at 0, 1, ... by the
\* callback; a write at an index >= m.Size() is Go's index-out-of-range panic.
Keys(heap, m) ==
    LET calls == ForEach(heap, m)
        n     == Size(heap, m)
    IN  [keys  |-> [x \in 1 .. n |-> IF x <= Len(calls) THEN calls[x].key ELSE ""],
         panic |-> Len(calls) > n]

\* ------------------------------------------------------- state ----------
VARIABLES
    heap,      \* every StringMap node allocated so far; heap[nilMap] is the empty map
    versions,  \* the maps returned to callers so far, oldest first (their roots)
    log,       \* the calls made so far, oldest first
    outcome,   \* "ok", or the panic that ended the process
    race       \* the writers that share one current-version variable

vars == << heap, versions, log, outcome, race >>

\* The writers that publish to the shared current-version variable, and the
\* keys they write.
Writers == {1, 2}

RaceKeys == {"a", "b"}

\* The shared variable holds the empty map and no writer has read it.  mode
\* is the discipline of the writers: "none", "cas" or "single".  want is the
\* Lookup result the updates published so far, in the order of publication,
\* leave for each key.
RaceStart(mode) ==
    [mode |-> mode,
     shared |-> NewStringMap,
     pc |-> [w \in Writers |-> "idle"],
     base |-> [w \in Writers |-> NewStringMap],
     result |-> [w \in Writers |-> NewStringMap],
     update |-> [w \in Writers |-> [key |-> "", effect |-> [value |-> "", found |-> FALSE]]],
     want |-> [k \in RaceKeys |-> [value |-> "", found |-> FALSE]],
     published |-> {},
     derived |-> 0]

\* The version the caller holds and applies the next call to.
Current == versions[Len(versions)]

Init ==
    /\ heap = << nilStringMap >>
    /\ versions = << NewStringMap >>
    /\ log = << >>
    /\ outcome = "ok"
    /\ race = RaceStart("single")

\* The record of one call: what was called, the nodes it wrote to, the nodes
\* it called deleteLeftmost on, and the size of the heap when it started.
Call(op, k, v, mem) ==
    [op |-> op, key |-> k, value |-> v, writes |-> mem.writes,
     leftmost |-> mem.leftmost, allocated |-> Len(heap)]

\* The caller calls Current.Set(k, v) and keeps the map returned; a panic
\* ends the process.
SetOp(k, v) ==
    LET r == Set(NewMem(heap), Current, k, v)
    IN  /\ outcome = "ok"
        /\ UNCHANGED race
        /\ heap' = r.mem.heap
        /\ log' = Append(log, Call("Set", k, v, r.mem))
        /\ IF r.panic
           THEN /\ outcome' = "collision"
                /\ UNCHANGED versions
           ELSE /\ outcome' = "ok"
                /\ versions' = Append(versions, r.ref)

\* The caller calls Current.Delete(k) and keeps the map returned.
DeleteOp(k) ==
    LET r == Delete(NewMem(heap), Current, k)
    IN  /\ outcome = "ok"
        /\ UNCHANGED race
        /\ heap' = r.mem.heap
        /\ log' = Append(log, Call("Delete", k, "", r.mem))
        /\ IF r.panic
           THEN /\ outcome' = "impossible"
                /\ UNCHANGED versions
           ELSE /\ outcome' = "ok"
                /\ versions' = Append(versions, r.ref)

\* Any caller: up to MaxOps calls of Set and Delete, in any order.
Next ==
    \/ \E k \in KeySet, v \in ValueSet : Len(log) < MaxOps /\ SetOp(k, v)
    \/ \E k \in KeySet : Len(log) < MaxOps /\ DeleteOp(k)

Spec == Init /\ [][Next]_vars

\* The round-trip caller: it inserts up to MaxTrip keys, each once, and then
\* deletes the keys it inserted, each once, in any order.
Inserting == \A j \in 1 .. Len(log) : log[j].op = "Set"

Inserted == {log[j].key : j \in {x \in 1 .. Len(log) : log[x].op = "Set"}}

Removed == {log[j].key : j \in {x \in 1 .. Len(log) : log[x].op = "Delete"}}

InsertStep(k, v) ==
    /\ Inserting
    /\ Len(log) < MaxTrip
    /\ k \notin Inserted
    /\ SetOp(k, v)

RemoveStep(k) ==
    /\ k \in Inserted \ Removed
    /\ DeleteOp(k)

NextRoundTrip ==
    \/ \E k \in KeySet, v \in ValueSet : InsertStep(k, v)
    \/ \E k \in KeySet : RemoveStep(k)

SpecRoundTrip == Init /\ [][NextRoundTrip]_vars

\* The caller of distinct digests: up to MaxDeep calls of Set and Delete on
\* the keys of DeepKeys, in any order.
DeepSetStep(k) ==
    /\ Len(log) < MaxDeep
    /\ SetOp(k, "1")

DeepDeleteStep(k) ==
    /\ Len(log) < MaxDeep
    /\ DeleteOp(k)

NextDeep ==
    \/ \E k \in DeepKeys : DeepSetStep(k)
    \/ \E k \in DeepKeys : DeepDeleteStep(k)

SpecDeep == Init /\ [][NextDeep]_vars

\* The racing writers.  Each reads the shared variable, derives a version
\* from the root it read with one Set or Delete, and publishes the result.
\* With mode "none" a writer stores its result whatever the variable holds;
\* with "cas" it stores only while the variable still holds the root it
\* read and starts over otherwise; with "single" writer 1 is the only writer.
InitRace ==
    /\ heap = << nilStringMap >>
    /\ versions = << NewStringMap >>
    /\ log = << >>
    /\ outcome = "ok"
    /\ \E mode \in {"none", "cas", "single"} : race = RaceStart(mode)

ReadRoot(w) ==
    /\ race.pc[w] = "idle"
    /\ race.mode = "single" => w = 1
    /\ race.derived < MaxRace
    /\ race' = [race EXCEPT !.pc[w] = "read", !.base[w] = race.shared]
    /\ UNCHANGED << heap, versions, log, outcome >>

DeriveSet(w, k, v) ==
    LET r == Set(NewMem(heap), race.base[w], k, v)
    IN  /\ race.pc[w] = "read"
        /\ ~r.panic
        /\ heap' = r.mem.heap
        /\ race' = [race EXCEPT !.pc[w] = "derived",
                                !.result[w] = r.ref,
                                !.update[w] = [key |-> k,
                                               effect |-> [value |-> v, found |-> TRUE]],
                                !.derived = @ + 1]
        /\ UNCHANGED << versions, log, outcome >>

DeriveDelete(w, k) ==
    LET r == Delete(NewMem(heap), race.base[w], k)
    IN  /\ race.pc[w] = "read"
        /\ ~r.panic
        /\ heap' = r.mem.heap
        /\ race' = [race EXCEPT !.pc[w] = "derived",
                                !.result[w] = r.ref,
                                !.update[w] = [key |-> k,
                                               effect |-> [value |-> "", found |-> FALSE]],
                                !.derived = @ + 1]
        /\ UNCHANGED << versions, log, outcome >>

\* The store of a result into the shared variable.
Published(w) ==
    [race EXCEPT !.pc[w] = "idle",
                 !.shared = race.result[w],
                 !.want[race.update[w].key] = race.update[w].effect,
                 !.published = @ \cup {w}]

Publish(w) ==
    /\ race.pc[w] = "derived"
    /\ race.mode # "cas"
    /\ race' = Published(w)
    /\ UNCHANGED << heap, versions, log, outcome >>

PublishCAS(w) ==
    /\ race.pc[w] = "derived"
    /\ race.mode = "cas"
    /\ race.shared = race.base[w]
    /\ race' = Published(w)
    /\ UNCHANGED << heap, versions, log, outcome >>

RetryCAS(w) ==
    /\ race.pc[w] = "derived"
    /\ race.mode = "cas"
    /\ race.shared # race.base[w]
    /\ race' = [race EXCEPT !.pc[w] = "idle"]
    /\ UNCHANGED << heap, versions, log, outcome >>

NextRace ==
    \/ \E w \in Writers : ReadRoot(w)
    \/ \E w \in Writers, k \in RaceKeys, v \in ValueSet : DeriveSet(w, k, v)
    \/ \E w \in Writers, k \in RaceKeys : DeriveDelete(w, k)
    \/ \E w \in Writers : Publish(w)
    \/ \E w \in Writers : PublishCAS(w)
    \/ \E w \in Writers : RetryCAS(w)

SpecRace == InitRace /\ [][NextRace]_vars

\* ------------------------------------------------- vocabulary of claims --
Absent == [value |-> "", found |-> FALSE]

Present(v) == [value |-> v, found |-> TRUE]

RECURSIVE LastOn(_, _)
\* The position in the first n calls of the last call on key k, 0 if none.
LastOn(n, k) ==
    IF n = 0 THEN 0
    ELSE IF log[n].key = k THEN n
    ELSE LastOn(n - 1, k)

\* What the first n calls leave for key k: the value of the last call on k
\* when that was a Set, nothing otherwise.
Expected(n, k) ==
    LET j == LastOn(n, k)
    IN  IF j = 0 \/ log[j].op = "Delete" THEN Absent ELSE Present(log[j].value)

\* Current is the result of the first Calls calls (a call that panicked
\* returned nothing).
Calls == Len(versions) - 1

KeysUsed(n) == {log[j].key : j \in 1 .. n}

DistinctDigests(S) == \A x, y \in S : x # y => hashKey(x) # hashKey(y)

RECURSIVE Nodes(_, _)
\* The nodes of the tree under m.
Nodes(h, m) ==
    IF IsNil(m) THEN {}
    ELSE {m} \cup UNION {Nodes(h, h[m].children[j]) : j \in Slots}

\* m holds key k: some node of its tree stores k.
HasKey(h, m, k) == \E n \in Nodes(h, m) : h[n].key = k

\* The version the latest call was applied to, and the call.
Base == versions[Len(log)]

Last == log[Len(log)]

Returned == outcome = "ok" /\ Len(log) > 0

\* Everything a reader can observe of map m in heap h.
Observe(h, m) ==
    [lookup |-> [k \in KeySet |-> Lookup(h, m, k)],
     size |-> Size(h, m),
     keys |-> Keys(h, m)]

\* ------------------------------------------------------- claims ---------
\* C1: for every map reached from NewMap by Set and Delete on keys with
\* pairwise distinct digests, and every key k (with a digest distinct from
\* theirs), Lookup(k) returns (v, true) exactly when the last call on k was
\* Set(k, v), and found = false when k was never set or was deleted last.
C1_LookupFollowsLastCall ==
    \A k \in KeySet :
        DistinctDigests(KeysUsed(Calls) \cup {k})
            => Lookup(heap, Current, k) = Expected(Calls, k)

\* The latest call deleted the key of an internal root, a leaf took its
\* place, and a key set earlier is found in the map returned.
C1_Witness ==
    /\ Returned
    /\ Last.op = "Delete"
    /\ DistinctDigests(KeysUsed(Len(log)))
    /\ heap[Base].key = Last.key
    /\ Size(heap, Base) = 3
    /\ \E k \in KeySet \ {Last.key} :
          /\ Lookup(heap, Current, k).found
          /\ heap[Current].key = k
          /\ heap[Base].children[ChildIndex(hashKey(k))] # nilMap
          /\ heap[heap[Base].children[ChildIndex(hashKey(k))]].key # k

\* C2: no call changes a node that existed before it, neither in its result
\* nor at any of its writes, so Lookup, Size and Keys of every version
\* returned earlier are the same after the call as before it.
C2_Persistence ==
    [][ /\ \A m \in 1 .. Len(heap) : heap'[m] = heap[m]
        /\ \A w \in log'[Len(log')].writes : w > Len(heap)
        /\ \A i \in 1 .. Len(versions) :
              /\ versions'[i] = versions[i]
              /\ Observe(heap', versions[i]) = Observe(heap, versions[i]) ]_vars

\* A Delete of a present key has returned a new version that shares nodes
\* with the version it was applied to, which still holds the key.
C2_Witness ==
    /\ Returned
    /\ Last.op = "Delete"
    /\ Lookup(heap, Base, Last.key).found
    /\ ~Lookup(heap, Current, Last.key).found
    /\ Nodes(heap, Base) \cap Nodes(heap, Current) # {}
    /\ Last.writes # {}

\* The keys stored in the tree under m, and its associations.
KeysOf(h, m) == {h[n].key : n \in Nodes(h, m)}

PairsOf(h, m) == {[key |-> h[n].key, val |-> h[n].value] : n \in Nodes(h, m)}

\* The keys the first n calls leave in the map.
ExpectedKeys(n) == {k \in KeySet : Expected(n, k).found}

Range(f) == {f[x] : x \in DOMAIN f}

NoDuplicates(f) == \A x, y \in DOMAIN f : x # y => f[x] # f[y]

\* C3: Size is the number of distinct keys the map holds; after Set calls
\* only it is the number of distinct keys set; a Set of a key the map does
\* not hold adds exactly 1 and a Set of a key it holds leaves Size as it was.
C3_SizeCountsKeys ==
    /\ Size(heap, Current) = Cardinality(KeysOf(heap, Current))
    /\ (\A j \in 1 .. Calls : log[j].op = "Set")
          => Size(heap, Current) = Cardinality(KeysUsed(Calls))
    /\ DistinctDigests(KeysUsed(Calls))
          => Size(heap, Current) = Cardinality(ExpectedKeys(Calls))
    /\ (Returned /\ Last.op = "Set")
          => Size(heap, Current) =
                Size(heap, Base) + (IF HasKey(heap, Base, Last.key) THEN 0 ELSE 1)

\* A Set has replaced the value of a key held below the root of a map of
\* three keys, and a Set before it added a key.
C3_Witness ==
    /\ Returned
    /\ Last.op = "Set"
    /\ HasKey(heap, Base, Last.key)
    /\ heap[Base].key # Last.key
    /\ Lookup(heap, Base, Last.key).value # Last.value
    /\ Size(heap, Current) = 3

\* C4 (as claimed): after m2 = Delete(m, k) of a key k that m holds, Size
\* drops by exactly 1, Lookup(m2, k) finds nothing, and Lookup(m2, k') is
\* Lookup(m, k') for every other key k'.
C4_DeletePresentKey ==
    (Returned /\ Last.op = "Delete" /\ HasKey(heap, Base, Last.key))
        => /\ Size(heap, Current) = Size(heap, Base) - 1
           /\ ~Lookup(heap, Current, Last.key).found
           /\ \A k \in KeySet \ {Last.key} :
                 Lookup(heap, Current, k) = Lookup(heap, Base, k)

\* What does hold of Delete of a key the map holds: the Size and the key
\* itself as claimed, and the Lookup of every key of another digest.
DeletePresentKeyOtherDigests ==
    (Returned /\ Last.op = "Delete" /\ HasKey(heap, Base, Last.key))
        => /\ Size(heap, Current) = Size(heap, Base) - 1
           /\ ~Lookup(heap, Current, Last.key).found
           /\ KeysOf(heap, Current) = KeysOf(heap, Base) \ {Last.key}
           /\ \A k \in KeySet :
                 hashKey(k) # hashKey(Last.key)
                    => Lookup(heap, Current, k) = Lookup(heap, Base, k)

\* C5 (as claimed): Delete(m, k) of a key k that m does not hold returns a
\* map of the same Size, the same keys and the same Lookup results.
C5_DeleteAbsentKey ==
    (Returned /\ Last.op = "Delete" /\ ~HasKey(heap, Base, Last.key))
        => /\ Size(heap, Current) = Size(heap, Base)
           /\ KeysOf(heap, Current) = KeysOf(heap, Base)
           /\ \A k \in KeySet : Lookup(heap, Current, k) = Lookup(heap, Base, k)

\* What does hold of Delete of a key the map does not hold: nothing changes
\* when no key of the map has the digest of the key deleted.
DeleteAbsentDigest ==
    (Returned /\ Last.op = "Delete"
       /\ \A k \in KeysOf(heap, Base) : hashKey(k) # hashKey(Last.key))
        => /\ Current = Base
           /\ Last.writes = {}
           /\ Len(heap) = Last.allocated

\* Delete of a key the map does not hold removes the key of the same digest
\* that it does hold.
DeleteAbsentKeyRemovesCollider ==
    (Returned /\ Last.op = "Delete" /\ ~HasKey(heap, Base, Last.key))
        => \A k \in KeysOf(heap, Base) :
              hashKey(k) = hashKey(Last.key) => ~HasKey(heap, Current, k)

\* C6: Keys(m) has length Size(m), no duplicates and no unfilled or
\* overflowing slot, and holds exactly the keys of m; ForEach visits every
\* association of m exactly once.
C6_KeysAndForEach ==
        LET m == Current
            K == Keys(heap, m)
            F == ForEach(heap, m)
            N == Nodes(heap, m)
            E == ExpectedKeys(Calls)
        IN  /\ ~K.panic
            /\ Len(K.keys) = Size(heap, m)
            /\ NoDuplicates(K.keys)
            /\ Range(K.keys) = {heap[n].key : n \in N}
            /\ Len(F) = Cardinality(N)
            /\ NoDuplicates(F)
            /\ Range(F) = {[key |-> heap[n].key, val |-> heap[n].value] : n \in N}
            /\ DistinctDigests(KeysUsed(Calls))
                  => /\ Range(K.keys) = E
                     /\ Range(F) = {[key |-> k, val |-> Expected(Calls, k).value] :
                                       k \in E}

\* A map of three keys whose root has two children, reached by a Delete.
C6_Witness ==
    /\ Returned
    /\ Last.op = "Delete"
    /\ Len(Keys(heap, Base).keys) = 3
    /\ Len(ForEach(heap, Current)) = 2
    /\ \A j \in Slots : heap[Base].children[j] # nilMap

\* The log is n insertions of distinct keys followed by the deletion of
\* each of them.
RoundTrip(n) ==
    /\ n >= 1
    /\ Len(log) = 2 * n
    /\ \A j \in 1 .. n : log[j].op = "Set"
    /\ \A j \in n + 1 .. 2 * n : log[j].op = "Delete"
    /\ Cardinality({log[j].key : j \in 1 .. n}) = n
    /\ {log[j].key : j \in n + 1 .. 2 * n} = {log[j].key : j \in 1 .. n}

\* C7: inserting n keys in any order and deleting all of them in any order
\* yields a map with Size 0 on which no Lookup finds anything, and its root
\* is the shared empty map itself.
C7_RoundTrip ==
    \A n \in 1 .. MaxTrip + 1 :
        RoundTrip(n)
            => /\ outcome = "ok"
               /\ Current = nilMap
               /\ Size(heap, Current) = 0
               /\ \A k \in KeySet : Lookup(heap, Current, k) = Absent

\* Three keys were inserted and deleted, and the first deletion took the
\* root while it had children.
C7_Witness ==
    /\ RoundTrip(3)
    /\ outcome = "ok"
    /\ heap[versions[4]].key = log[4].key
    /\ Size(heap, versions[4]) = 3

\* C8: Set(m, k2, v) on a map m that holds a key k1 # k2 of the same digest
\* ends in the collision panic: no map is returned, no node that existed
\* changes, and m still holds k1 with its value and does not hold k2.
C8_CollisionIsFatal ==
    [][ \A k2 \in KeySet :
          ( /\ \E k1 \in KeySet \ {k2} :
                  hashKey(k1) = hashKey(k2) /\ HasKey(heap, Current, k1)
            /\ Len(log') = Len(log) + 1
            /\ log'[Len(log')].op = "Set"
            /\ log'[Len(log')].key = k2 )
          => /\ outcome' = "collision"
             /\ versions' = versions
             /\ \A m \in 1 .. Len(heap) : heap'[m] = heap[m]
             /\ Observe(heap', Current) = Observe(heap, Current)
             /\ PairsOf(heap', Current) = PairsOf(heap, Current) ]_vars

\* A Set of "e" hit the node of "a", which an earlier Delete had moved from
\* a leaf to the root, and panicked.
C8_Witness ==
    /\ outcome = "collision"
    /\ Last.op = "Set"
    /\ Len(log) >= 2
    /\ log[Len(log) - 1].op = "Delete"
    /\ \E k1 \in KeySet \ {Last.key} :
          /\ hashKey(k1) = hashKey(Last.key)
          /\ heap[Current].key = k1
          /\ heap[versions[Len(versions) - 1]].key # k1
          /\ HasKey(heap, versions[Len(versions) - 1], k1)

\* C9 (as claimed): whenever Lookup(m, k) returns found = true, m holds k
\* and the value returned is the value stored with k, for every key k.
C9_FoundIsQueriedKey ==
    \A k \in KeySet :
        Lookup(heap, Current, k).found
            => [key |-> k, val |-> Lookup(heap, Current, k).value]
                  \in PairsOf(heap, Current)

\* What does hold of Lookup: a found value is the value stored with the one
\* key of the map that has the digest of the queried key.
FoundIsKeyOfSameDigest ==
    \A k \in KeySet :
        Lookup(heap, Current, k).found
            => \E n \in Nodes(heap, Current) :
                  /\ heap[n].hash = hashKey(k)
                  /\ heap[n].value = Lookup(heap, Current, k).value
                  /\ \A n2 \in Nodes(heap, Current) :
                        heap[n2].hash = hashKey(k) => n2 = n

RECURSIVE Placed(_, _, _)
\* Every node under m, itself reached through the slots of path, has the
\* digest chunk s_j = (digest >> (j * shiftSize)) mod childCount for each
\* slot s_j on its path from the root.
Placed(h, m, path) ==
    \/ IsNil(m)
    \/ /\ \A j \in 1 .. Len(path) :
             (h[m].hash \div (2 ^ ((j - 1) * shiftSize))) % childCount = path[j]
       /\ \A s \in Slots : Placed(h, h[m].children[s], Append(path, s))

\* C10: in every tree reached by Set and Delete, each node sits where the
\* chunks of its digest lead.
C10_Placement == Placed(heap, Current, << >>)

\* A Delete of an internal root has put the leftmost leaf of its donor
\* subtree, taken from depth 2, at the root.
C10_Witness ==
    /\ Returned
    /\ Last.op = "Delete"
    /\ heap[Base].key = Last.key
    /\ \E s \in Slots :
          /\ heap[Base].children[s] # nilMap
          /\ heap[heap[Base].children[s]].key # heap[Current].key
          /\ HasKey(heap, heap[Base].children[s], heap[Current].key)
          /\ heap[Current].children[s] # nilMap

RECURSIVE SumOver(_, _, _)
\* The sum of count over the child slots j .. childCount - 1 of node n.
SumOver(h, n, j) ==
    IF j >= childCount THEN 0 ELSE h[h[n].children[j]].count + SumOver(h, n, j + 1)

\* C11: every node of every map returned has count = 1 + the sum of the
\* counts of its children, the empty map has count 0, and a node has count 1
\* exactly when all its child slots hold the empty map.
C11_CountInvariant ==
    /\ heap[nilMap].count = 0
    /\ \A n \in Nodes(heap, Current) :
          /\ heap[n].count = 1 + SumOver(heap, n, 0)
          /\ (heap[n].count = 1) <=> (\A s \in Slots : heap[n].children[s] = nilMap)

\* A Delete has rebuilt the root of a chain of three keys out of the leaf at
\* its end, and the node in between was rebuilt without its child.
C11_Witness ==
    /\ Returned
    /\ Last.op = "Delete"
    /\ heap[Base].key = Last.key
    /\ heap[Base].count = 3
    /\ heap[Current].count = 2
    /\ Current \in Last.writes
    /\ \E s \in Slots :
          /\ heap[heap[Base].children[s]].count = 2
          /\ heap[heap[Current].children[s]].count = 1
          /\ heap[Current].children[s] \in Last.writes


\* A position in a tree is the sequence of slot numbers that leads to it from
\* the root.
IsPrefix(p, q) == Len(p) <= Len(q) /\ SubSeq(q, 1, Len(p)) = p

RECURSIVE NodeAt(_, _, _)
\* The node at position p under m (the empty map where the tree has none).
NodeAt(h, m, p) ==
    IF p = << >> THEN m ELSE NodeAt(h, h[m].children[Head(p)], Tail(p))

RECURSIVE Positions(_, _)
\* The positions of the nodes of the tree under m.
Positions(h, m) ==
    IF IsNil(m) THEN {}
    ELSE {<< >>} \cup UNION {{<<s>> \o p : p \in Positions(h, h[m].children[s])} : s \in Slots}

\* Slot taken at depth d by a key of digest hash.
Chunk(hash, d) == (hash \div (childCount ^ d)) % childCount

RECURSIVE PathTo(_, _, _, _)
\* The position, below a node m at depth d, where the digest hash is stored
\* or would be stored.
PathTo(h, m, hash, d) ==
    IF IsNil(m) \/ h[m].hash = hash THEN << >>
    ELSE <<Chunk(hash, d)>> \o PathTo(h, h[m].children[Chunk(hash, d)], hash, d + 1)

\* The child slot with the largest count, the lowest such slot among equals.
Donor(h, n) ==
    CHOOSE d \in Slots :
        /\ \A s \in Slots : h[h[n].children[s]].count <= h[h[n].children[d]].count
        /\ \A s \in Slots : s < d => h[h[n].children[s]].count < h[h[n].children[d]].count

HasChildren(h, n) == \E s \in Slots : ~IsNil(h[n].children[s])

RECURSIVE LeftmostPath(_, _)
\* The position of the leftmost leaf under m: the first occupied slot at
\* every level.
LeftmostPath(h, m) ==
    IF ~HasChildren(h, m) THEN << >>
    ELSE LET s == CHOOSE s \in Slots :
                      /\ ~IsNil(h[m].children[s])
                      /\ \A r \in Slots : r < s => IsNil(h[m].children[r])
         IN  <<s>> \o LeftmostPath(h, h[m].children[s])

\* The position the last call was aimed at in the version it was called on.
TargetPath == PathTo(heap, Base, hashKey(Last.key), 0)

Target == NodeAt(heap, Base, TargetPath)

\* The last call was a Delete that removed a node with children.
RemovedInner ==
    /\ Returned
    /\ Last.op = "Delete"
    /\ ~IsNil(Target)
    /\ HasChildren(heap, Target)

\* The target position, continued to the leaf that replaces a removed node
\* with children.
PromotionPath ==
    IF RemovedInner
    THEN TargetPath \o <<Donor(heap, Target)>>
             \o LeftmostPath(heap, heap[Target].children[Donor(heap, Target)])
    ELSE TargetPath

\* The last call created nodes only at positions on path P, and every child
\* slot leading off P holds the node it held before.
CopiedAlong(P) ==
    /\ \A p \in Positions(heap, Current) :
           NodeAt(heap, Current, p) > Last.allocated => IsPrefix(p, P)
    /\ \A n \in 0 .. Len(P) : \A s \in Slots :
           LET q == SubSeq(P, 1, n) \o <<s>>
           IN  ~IsPrefix(q, P) => NodeAt(heap, Current, q) = NodeAt(heap, Base, q)

\* C12 as stated: a write creates new nodes only on the path from the root to
\* the node inserted, updated or removed; every other node and every child
\* slot off that path is the same reference as in the old version.
C12_CopiesTargetPathOnly == Returned => CopiedAlong(TargetPath)

\* C12: a write creates new nodes only on the path from the root to the node
\* inserted, updated or removed, continued, when the removed node has
\* children, down to the leftmost leaf of its donor subtree; every other node
\* and every child slot off that path is the same reference as in the old
\* version.
C12_CopiesPromotionPathOnly == Returned => CopiedAlong(PromotionPath)

\* A Delete removed a node whose donor subtree was two nodes deep: a node
\* was created below the removed node's position, and the leaf's position is
\* empty.
C12_Witness ==
    /\ RemovedInner
    /\ Len(PromotionPath) > Len(TargetPath) + 1
    /\ \E p \in Positions(heap, Current) :
           /\ Len(p) > Len(TargetPath)
           /\ IsPrefix(p, PromotionPath)
           /\ NodeAt(heap, Current, p) > Last.allocated
    /\ ~IsNil(NodeAt(heap, Base, PromotionPath))
    /\ IsNil(NodeAt(heap, Current, PromotionPath))


\* The keys, values and digests under m, each with its position.
Shape(h, m) ==
    {[at |-> p, key |-> h[NodeAt(h, m, p)].key, value |-> h[NodeAt(h, m, p)].value,
      hash |-> h[NodeAt(h, m, p)].hash] : p \in Positions(h, m)}

C14_DeleteMissIsNoOp ==
    (Returned /\ Last.op = "Delete" /\ IsNil(Target))
        => /\ Current = Base
           /\ Len(heap) = Last.allocated
           /\ Last.writes = {}
           /\ Last.leftmost = << >>

\* A Delete went down two nodes of a map, found the slot for its digest
\* empty, and gave the map back.
C14_Witness ==
    /\ Returned
    /\ Last.op = "Delete"
    /\ IsNil(Target)
    /\ Len(TargetPath) = 2
    /\ Current = Base
    /\ Len(heap) = Last.allocated


\* C15: no Delete ends in the panic of deleteLeftmost, and deleteLeftmost is
\* never called on the empty map: every node it is called on is a leaf or
\* has a child.
C15_NoImpossiblePanic ==
    /\ outcome # "impossible"
    /\ \A j \in 1 .. Len(log) : \A i \in 1 .. Len(log[j].leftmost) :
           LET m == log[j].leftmost[i]
           IN  /\ ~IsNil(m)
               /\ isLeaf(heap, m) \/ HasChildren(heap, m)

\* A Delete called deleteLeftmost on a node with a child, which called it on
\* the leaf below, and returned.
C15_Witness ==
    /\ Returned
    /\ Last.op = "Delete"
    /\ Len(Last.leftmost) = 2
    /\ HasChildren(heap, Last.leftmost[1])
    /\ isLeaf(heap, Last.leftmost[2])


\* C16: the empty map is never written to: its count is 0 and each of its
\* slots holds the empty map itself; no call writes to it (neither the field
\* stores of Set nor recalculateCount), every node a call writes to was
\* allocated by that call, and every slot of every node holds the address of
\* a node.
C16_SentinelUntouched ==
    /\ heap[nilMap].count = 0
    /\ \A s \in Slots : heap[nilMap].children[s] = nilMap
    /\ heap[nilMap] = nilStringMap
    /\ \A j \in 1 .. Len(log) :
           /\ nilMap \notin log[j].writes
           /\ \A w \in log[j].writes : w > log[j].allocated
    /\ \A n \in 1 .. Len(heap) : \A s \in Slots :
           heap[n].children[s] \in 1 .. Len(heap)

\* A Set found the slot for its key empty below the root and filled it with
\* a new leaf, whose slots all hold the empty map.
C16_Witness ==
    /\ Returned
    /\ Last.op = "Set"
    /\ Len(TargetPath) > 0
    /\ IsNil(Target)
    /\ NodeAt(heap, Current, TargetPath) \in Last.writes
    /\ heap[NodeAt(heap, Current, TargetPath)].key = Last.key
    /\ \A s \in Slots : heap[NodeAt(heap, Current, TargetPath)].children[s] = nilMap
    /\ heap[nilMap].count = 0


\* The width of the digests in bits: the least width that holds the digest
\* of every key.
DigestBits ==
    CHOOSE w \in 0 .. 64 :
        /\ \A k \in KeySet \cup DeepKeys : hashKey(k) < 2 ^ w
        /\ \A v \in 0 .. w - 1 : \E k \in KeySet \cup DeepKeys : hashKey(k) >= 2 ^ v

\* Digest width divided by shiftSize, rounded up.
MaxDepth == (DigestBits + shiftSize - 1) \div shiftSize

\* C17: with keys of distinct digests, every node of every map returned is
\* at most MaxDepth slots below the root, and every call runs to completion
\* within that depth: the descent of Set, Delete and Lookup ends at a
\* position at most MaxDepth slots down, Lookup returns for every key, and a
\* Delete calls deleteLeftmost at most MaxDepth times.
C17_BoundedDepth ==
    /\ \A p \in Positions(heap, Current) : Len(p) <= MaxDepth
    /\ \A k \in DeepKeys :
           /\ Len(PathTo(heap, Current, hashKey(k), 0)) <= MaxDepth
           /\ Lookup(heap, Current, k).found \in BOOLEAN
    /\ outcome = "ok"
    /\ \A j \in 1 .. Len(log) : Len(log[j].leftmost) <= MaxDepth

\* A Set placed its key MaxDepth slots below the root, at the end of a chain
\* that uses up every chunk of the digest.
C17_Witness ==
    /\ Returned
    /\ Last.op = "Set"
    /\ Len(TargetPath) = MaxDepth
    /\ TargetPath \in Positions(heap, Current)
    /\ heap[NodeAt(heap, Current, TargetPath)].key = Last.key
    /\ Lookup(heap, Current, Last.key).found


\* The shared variable holds a map that lacks an update that was published.
LostUpdate ==
    \E k \in RaceKeys : Lookup(heap, race.shared, k) # race.want[k]

\* C18: an update is lost only when the writers publish without
\* coordination: with a single writer or with compare-and-swap publication
\* the shared map holds every update published.
C18_LostUpdateOnlyUncoordinated ==
    /\ LostUpdate => race.mode = "none"
    /\ outcome = "ok"

\* Two writers read the same root, each derived a version from it with a Set
\* of its own key, both published without coordination, and the shared map
\* lacks the update of one of them.
C18_Witness ==
    /\ race.mode = "none"
    /\ race.published = Writers
    /\ \A w \in Writers : race.pc[w] = "idle"
    /\ race.base[1] = race.base[2]
    /\ race.update[1].key # race.update[2].key
    /\ \A w \in Writers : race.update[w].effect.found
    /\ \E w \in Writers :
           /\ race.shared = race.result[w]
           /\ \E u \in Writers \ {w} :
                  Lookup(heap, race.shared, race.update[u].key) # race.update[u].effect
    /\ LostUpdate

====
